---------------------------- MODULE Spec2Model ----------------------------
(***************************************************************************)
(* A model of embolalia/raspi-services.                                    *)
(*                                                                         *)
(*   tempserver.py   : TempResult, the retryable decorator, the sensor     *)
(*                     readers, get_all_data and the two cherrypy          *)
(*                     handlers TempServ.index and TempServ.metrics.       *)
(*   service_test.py : the systemctl polling loop that drives the LED.     *)
(*                                                                         *)
(* Python values are records tagged with their type.  Floats are fixed     *)
(* point integers: temperatures are tenths of a degree, the sensor's CO2   *)
(* is tenths of a ppm, pressure_hpa is tenths of a hPa, and the pressure   *)
(* in inHg is hundredths after round(.., 2).                               *)
(***************************************************************************)
EXTENDS Integers, Sequences, FiniteSets

VARIABLES
    \* a logical read of an arbitrary operation through retryable
    rstack, rcalls, rlog, rstatus, rvalue,
    \* the cherrypy worker threads of tempserver.py
    req, phase, src, frames, calls, log, data, resp,
    \* service_test.py
    returncode, mpc, idx, reports, led, prevLed, cycles,
    \* the pressure assessment of TempServ.index on its own
    phpa, pnote

rvars == <<rstack, rcalls, rlog, rstatus, rvalue>>

svars == <<req, phase, src, frames, calls, log, data, resp>>

mvars == <<returncode, mpc, idx, reports, led, prevLed, cycles>>

pvars == <<phpa, pnote>>

vars == <<rvars, svars, mvars, pvars>>

(***************************************************************************)
(* Python values                                                           *)
(***************************************************************************)
None == [type |-> "NoneType"]

Num(n) == [type |-> "num", v |-> n]

Str(s) == [type |-> "str", v |-> s]

\* Python truth value: None, 0 and '' are falsy; TempResult defines neither
\* __bool__ nor __len__, so every instance is truthy.
Truthy(x) ==
    CASE x.type = "NoneType" -> FALSE
      [] x.type = "num" -> x.v # 0
      [] x.type = "str" -> x.v # ""
      [] x.type = "TempResult" -> TRUE

\* round(x) and format(x, '.0f') of a value held in tenths: the nearest
\* integer, a half going to the even one.
round(x) ==
    LET q == x \div 10
        r == x % 10
    IN  IF r < 5 THEN q
        ELSE IF r > 5 THEN q + 1
        ELSE IF q % 2 = 0 THEN q ELSE q + 1

\* TempResult.__init__: co2 arrives in tenths of a ppm and is kept, rounded
\* to whole ppm, only when truthy; None and 0 become None.
TempResult(temp_c, humidity, co2, pressure_hpa) ==
    [type |-> "TempResult",
     temp_c |-> temp_c,
     humidity |-> humidity,
     co2 |-> IF Truthy(co2) THEN Num(round(co2.v)) ELSE None,
     pressure_hpa |-> pressure_hpa]

\* TempResult.temp_f, in tenths of a degree: temp_c * (9/5) + 32.  Exact for
\* the model's temperatures, which are multiples of half a degree.
temp_f(r) == (r.temp_c * 9) \div 5 + 320

(***************************************************************************)
(* retryable: one activation of wrapped() is a frame; a logical read is a  *)
(* stack of frames (the wrapped(False) call of line 65 pushes a second).   *)
(*   pc = "try"    about to evaluate function()            (line 59)       *)
(*   pc = "infunc" function() is executing                 (line 59)       *)
(*   pc = "check"  result assigned, at the if of line 63                   *)
(*   pc = "await"  waiting for wrapped(False)              (line 65)       *)
(*   pc = "ret"    at return result                        (line 66)       *)
(***************************************************************************)
\* Fault variant: a bare except, which would catch every exception.
RecoverableAny(exc) == TRUE

\* The except clause of line 60 catches RuntimeError and its subclasses only.
Recoverable(exc) == exc \in {"RuntimeError", "RecursionError"}

Frame(retry) == [retry |-> retry, pc |-> "try", result |-> None]

\* Fault variant: the retry flag is ignored.
NeedsRetryAlways(retry, result) == ~Truthy(result)

\* The condition of line 63.
NeedsRetry(retry, result) == retry /\ ~Truthy(result)

Top(stack) == stack[Len(stack)]

SetTop(stack, f) == [stack EXCEPT ![Len(stack)] = f]

Pop(stack) == SubSeq(stack, 1, Len(stack) - 1)

\* wrapped() is called: retry defaults to True for the caller's call.
Enter(stack, retry) == Append(stack, Frame(retry))

\* Line 59: function() is entered.
CallFunction(stack) == SetTop(stack, [Top(stack) EXCEPT !.pc = "infunc"])

\* Line 59: function() returned value v.
FunctionReturned(stack, v) ==
    SetTop(stack, [Top(stack) EXCEPT !.pc = "check", !.result = v])

\* Lines 60-62: function() raised RuntimeError; it is logged, result = None.
FunctionRaisedRuntimeError(stack) ==
    SetTop(stack, [Top(stack) EXCEPT !.pc = "check", !.result = None])

\* Fault variant: the retry is logged but never made.
StartRetrySkipped(stack) ==
    SetTop(stack, [Top(stack) EXCEPT !.pc = "ret"])

\* Lines 63-65 taken: log 'Retrying' and call wrapped(False).
StartRetry(stack) ==
    Enter(SetTop(stack, [Top(stack) EXCEPT !.pc = "await"]), FALSE)

\* Lines 63-65 not taken: fall through to the return of line 66.
SkipRetry(stack) == SetTop(stack, [Top(stack) EXCEPT !.pc = "ret"])

\* Fault variant: wrapped(False) is called without assigning its value.
ReturnToCallerDropped(stack) ==
    SetTop(Pop(stack), [Top(Pop(stack)) EXCEPT !.pc = "ret", !.result = None])

\* Line 66 in the inner activation: the caller's line 65 assigns result.
ReturnToCaller(stack) ==
    SetTop(Pop(stack),
           [Top(Pop(stack)) EXCEPT !.pc = "ret", !.result = Top(stack).result])

(***************************************************************************)
(* A logical read of an arbitrary zero-argument operation through the      *)
(* decorator.  The operation's outcome at each invocation is chosen by the *)
(* environment.                                                            *)
(***************************************************************************)
\* Two distinguishable readings, so "which attempt's value" is observable.
ReadingA == TempResult(215, 40, Num(6124), None)

ReadingB == TempResult(220, 45, None, Num(10132))

\* What one invocation of the wrapped operation can do.
OpOutcomes ==
    {[kind |-> "raise", exc |-> "RuntimeError"],
     [kind |-> "raise", exc |-> "OSError"],
     [kind |-> "raise", exc |-> "KeyError"],
     [kind |-> "return", value |-> None],
     [kind |-> "return", value |-> Num(0)],
     [kind |-> "return", value |-> Str("")],
     [kind |-> "return", value |-> ReadingA],
     [kind |-> "return", value |-> ReadingB]}

RInit ==
    /\ rstack = <<>>
    /\ rcalls = 0
    /\ rlog = <<>>
    /\ rstatus = "idle"
    /\ rvalue = None

\* The caller calls wrapped() with the default retry=True.
RBegin ==
    /\ rstatus \in {"idle", "returned", "raised"}
    /\ rstack' = Enter(<<>>, TRUE)
    /\ rcalls' = 0
    /\ rlog' = <<>>
    /\ rstatus' = "running"
    /\ rvalue' = None
    /\ UNCHANGED <<svars, mvars, pvars>>

RCall ==
    /\ rstatus = "running"
    /\ Top(rstack).pc = "try"
    /\ rstack' = CallFunction(rstack)
    /\ rcalls' = rcalls + 1
    /\ UNCHANGED <<rlog, rstatus, rvalue>>
    /\ UNCHANGED <<svars, mvars, pvars>>

ROutcome ==
    /\ rstatus = "running"
    /\ Top(rstack).pc = "infunc"
    /\ \E o \in OpOutcomes :
         /\ rlog' = Append(rlog, o)
         /\ CASE o.kind = "return" ->
                   /\ rstack' = FunctionReturned(rstack, o.value)
                   /\ UNCHANGED <<rstatus, rvalue>>
              [] o.kind = "raise" /\ Recoverable(o.exc) ->
                   /\ rstack' = FunctionRaisedRuntimeError(rstack)
                   /\ UNCHANGED <<rstatus, rvalue>>
              [] OTHER ->
                   \* not caught by line 60: unwinds every activation
                   /\ rstack' = <<>>
                   /\ rstatus' = "raised"
                   /\ rvalue' = None
    /\ UNCHANGED rcalls
    /\ UNCHANGED <<svars, mvars, pvars>>

RCheck ==
    /\ rstatus = "running"
    /\ Top(rstack).pc = "check"
    /\ rstack' = IF NeedsRetry(Top(rstack).retry, Top(rstack).result)
                 THEN StartRetry(rstack)
                 ELSE SkipRetry(rstack)
    /\ UNCHANGED <<rcalls, rlog, rstatus, rvalue>>
    /\ UNCHANGED <<svars, mvars, pvars>>

RReturn ==
    /\ rstatus = "running"
    /\ Top(rstack).pc = "ret"
    /\ IF Len(rstack) > 1
       THEN /\ rstack' = ReturnToCaller(rstack)
            /\ UNCHANGED <<rstatus, rvalue>>
       ELSE /\ rstack' = <<>>
            /\ rstatus' = "returned"
            /\ rvalue' = Top(rstack).result
    /\ UNCHANGED <<rcalls, rlog>>
    /\ UNCHANGED <<svars, mvars, pvars>>

RNext == RBegin \/ RCall \/ ROutcome \/ RCheck \/ RReturn

(***************************************************************************)
(* The sensor readers.  What the hardware or the network does during one   *)
(* invocation is the environment's choice; each reader maps it to the      *)
(* outcome of the function wrapped by retryable.                           *)
(***************************************************************************)
\* The dict literal of get_all_data is evaluated in this order.
Sources == <<"quality", "bedroom", "barometer">>

NumSources == Len(Sources)

Returns(v) == [kind |-> "return", value |-> v]

Raises(e) == [kind |-> "raise", exc |-> e]

\* What the SCD30 can do during get_quality_data: deliver a sample, fail
\* its CRC check (RuntimeError) or fail on the I2C bus (OSError).  The wait
\* for data_available (lines 72-74) only delays the reads of line 75.
QualityEnv ==
    {[ok |-> TRUE, temperature |-> 215, relative_humidity |-> 40, eCO2 |-> 6124],
     [ok |-> FALSE, exc |-> "RuntimeError"],
     [ok |-> FALSE, exc |-> "OSError"]}

get_quality_data(e) ==
    IF e.ok
    THEN Returns(TempResult(e.temperature, e.relative_humidity,
                            Num(e.eCO2), None))
    ELSE Raises(e.exc)

\* What the MS8607 can do during get_barometer_data.
BarometerEnv ==
    {[ok |-> TRUE, temperature |-> 205, relative_humidity |-> 38,
      pressure |-> 10132],
     [ok |-> TRUE, temperature |-> 205, relative_humidity |-> 38,
      pressure |-> 10200],
     [ok |-> FALSE, exc |-> "RuntimeError"],
     [ok |-> FALSE, exc |-> "OSError"]}

get_barometer_data(e) ==
    IF e.ok
    THEN Returns(TempResult(e.temperature, e.relative_humidity,
                            None, Num(e.pressure)))
    ELSE Raises(e.exc)

\* What requests.get and response.json() can do during get_bedroom_data:
\* the connection is refused, a JSON body arrives, the body lacks a field
\* (KeyError), or json decoding exceeds the recursion limit
\* (RecursionError, a subclass of RuntimeError).
BedroomEnv ==
    {[ok |-> FALSE, exc |-> "ConnectionError"],
     [ok |-> TRUE, temp_c |-> 190, humidity |-> 50],
     [ok |-> FALSE, exc |-> "KeyError"],
     [ok |-> FALSE, exc |-> "RecursionError"]}

\* Fault variant: a refused connection gives no reading.
get_bedroom_data_absent(e) ==
    IF e.ok
    THEN Returns(TempResult(e.temp_c, e.humidity, None, None))
    ELSE IF e.exc = "ConnectionError"
         THEN Returns(None)
         ELSE Raises(e.exc)

\* Lines 89-96: ConnectionError is caught and answered with TempResult(0, 0).
get_bedroom_data(e) ==
    IF e.ok
    THEN Returns(TempResult(e.temp_c, e.humidity, None, None))
    ELSE IF e.exc = "ConnectionError"
         THEN Returns(TempResult(0, 0, None, None))
         ELSE Raises(e.exc)

\* What can happen during one invocation of the reader of source s, and
\* the reader's outcome when e happens.
SourceEnv(s) ==
    CASE s = "quality" -> QualityEnv
      [] s = "bedroom" -> BedroomEnv
      [] s = "barometer" -> BarometerEnv

ReaderOutcome(s, e) ==
    CASE s = "quality" -> get_quality_data(e)
      [] s = "bedroom" -> get_bedroom_data(e)
      [] s = "barometer" -> get_barometer_data(e)

\* The module-level device handle a reader uses, if any.
DeviceOf(s) ==
    CASE s = "quality" -> "quality"
      [] s = "barometer" -> "barometer"
      [] OTHER -> "none"

SourceNames == {Sources[i] : i \in 1..NumSources}

(***************************************************************************)
(* The exporters.  A response is the status cherrypy sends with either the *)
(* handler's return value or the exception that escaped the handler.       *)
(***************************************************************************)
NoResponse == [status |-> 0]

ServerError(exc) == [status |-> 500, error |-> exc]

\* 33.6585, the divisor of TempResult.pressure_inhg, times 10^4.
InHgDivisor == 336585

\* round(pressure_inhg, 2) in hundredths of an inHg, for pressure_hpa held
\* in tenths of a hPa: hpa / 33.6585 = tenths * 10^5 / 336585 hundredths.
\* The quotient is never exactly halfway, because the divisor is odd.
RoundedInHg(tenths) ==
    (2 * tenths * 100000 + InHgDivisor) \div (2 * InHgDivisor)

\* Fault variant: the bounds themselves count as high and low.
pressure_note_inclusive(pressure) ==
    IF pressure >= 3020 THEN "high"
    ELSE IF pressure <= 2980 THEN "low"
    ELSE "normal"

\* Lines 118-123, on the rounded pressure in hundredths of an inHg.
pressure_note(pressure) ==
    IF pressure > 3020 THEN "high"
    ELSE IF pressure < 2980 THEN "low"
    ELSE "normal"

\* Line 113: the template is a plain string, not an f-string, so each item
\* of data contributes the template itself.
index_text(d) ==
    [status |-> 200, view |-> "text",
     body |-> [i \in 1..Cardinality(DOMAIN d) |-> "{sensor}: {result}\n"]]

\* Lines 115-138.  Attribute access on None raises AttributeError.
index_html(d) ==
    LET barometer_data == d["barometer"]
        bedroom_data == d["bedroom"]
    IN  IF barometer_data.type # "TempResult" THEN ServerError("AttributeError")
        ELSE IF barometer_data.pressure_hpa = None THEN ServerError("TypeError")
        ELSE IF bedroom_data.type # "TempResult"
             THEN ServerError("AttributeError")
        ELSE LET pressure == RoundedInHg(barometer_data.pressure_hpa.v)
             IN  [status |-> 200, view |-> "html",
                  temp_f |-> round(temp_f(barometer_data)),
                  humidity |-> barometer_data.humidity,
                  bedroom_temp_f |-> round(temp_f(bedroom_data)),
                  bedroom_humidity |-> bedroom_data.humidity,
                  pressure_note |-> pressure_note(pressure),
                  pressure |-> pressure]

Gauge(name, location, value) ==
    [name |-> name, location |-> location, value |-> value]

\* Lines 177-186: the gauges set for one location.
GaugesOf(location, r) ==
    IF ~Truthy(r) THEN {}
    ELSE {Gauge("temperature_f", location, temp_f(r)),
          Gauge("temperature_c", location, r.temp_c),
          Gauge("humidity_pct", location, r.humidity)}
         \cup (IF Truthy(r.co2)
               THEN {Gauge("co2_ppm", location, r.co2.v)} ELSE {})
         \cup (IF Truthy(r.pressure_hpa)
               THEN {Gauge("pressure_hpa", location, r.pressure_hpa.v)}
               ELSE {})

\* Lines 141-190.
metrics(d) ==
    [status |-> 200, view |-> "metrics",
     gauges |-> UNION {GaugesOf(s, d[s]) : s \in DOMAIN d}]

\* The handler cherrypy dispatches to, by path and User-Agent.
Kinds == {"curl", "browser", "metrics"}

Handler(kind, d) ==
    CASE kind = "curl" -> index_text(d)
      [] kind = "browser" -> index_html(d)
      [] kind = "metrics" -> metrics(d)

(***************************************************************************)
(* The web server.  cherrypy.quickstart serves requests from a pool of     *)
(* worker threads (the configuration of lines 194-197 leaves the pool at   *)
(* its default size); each request runs its handler, and with it its own   *)
(* get_all_data, on one of them.  Nothing in tempserver.py locks the       *)
(* quality and barometer handles.                                          *)
(***************************************************************************)
\* The number of worker threads the model follows.
NumThreads == 2

Threads == 1..NumThreads

ZeroCounts == [s \in SourceNames |-> 0]

EmptyDict == [s \in {} |-> None]

SetItem(d, k, v) == [s \in DOMAIN d \cup {k} |-> IF s = k THEN v ELSE d[s]]

SInit ==
    /\ req = [t \in Threads |-> "none"]
    /\ phase = [t \in Threads |-> "idle"]
    /\ src = [t \in Threads |-> 1]
    /\ frames = [t \in Threads |-> <<>>]
    /\ calls = [t \in Threads |-> ZeroCounts]
    /\ log = [t \in Threads |-> <<>>]
    /\ data = [t \in Threads |-> EmptyDict]
    /\ resp = [t \in Threads |-> NoResponse]

Current(t) == Sources[src[t]]

\* A worker thread takes a request and its handler calls get_all_data,
\* which calls the first reader.
Accept(t) ==
    /\ phase[t] = "idle"
    /\ \E k \in Kinds : req' = [req EXCEPT ![t] = k]
    /\ phase' = [phase EXCEPT ![t] = "collect"]
    /\ src' = [src EXCEPT ![t] = 1]
    /\ frames' = [frames EXCEPT ![t] = Enter(<<>>, TRUE)]
    /\ UNCHANGED <<calls, log, data, resp>>
    /\ UNCHANGED <<rvars, mvars, pvars>>

\* Requests arrive one at a time: no other request is being handled.
AcceptAlone(t) ==
    /\ \A u \in Threads : phase[u] = "idle"
    /\ Accept(t)

\* Line 59: the reader's body starts executing.
Call(t) ==
    /\ phase[t] = "collect"
    /\ Top(frames[t]).pc = "try"
    /\ frames' = [frames EXCEPT ![t] = CallFunction(@)]
    /\ calls' = [calls EXCEPT ![t][Current(t)] = @ + 1]
    /\ UNCHANGED <<req, phase, src, log, data, resp>>
    /\ UNCHANGED <<rvars, mvars, pvars>>

\* Lines 59-62: the reader's body ends, by a return or an exception.  An
\* exception other than RuntimeError leaves wrapped, get_all_data and the
\* handler; cherrypy answers 500.
Outcome(t) ==
    /\ phase[t] = "collect"
    /\ Top(frames[t]).pc = "infunc"
    /\ \E e \in SourceEnv(Current(t)) :
         LET o == ReaderOutcome(Current(t), e)
         IN  /\ log' = [log EXCEPT ![t] =
                          Append(@, [source |-> Current(t), env |-> e])]
             /\ CASE o.kind = "return" ->
                       /\ frames' = [frames EXCEPT ![t] =
                                       FunctionReturned(@, o.value)]
                       /\ UNCHANGED <<phase, resp>>
                  [] o.kind = "raise" /\ Recoverable(o.exc) ->
                       /\ frames' = [frames EXCEPT ![t] =
                                       FunctionRaisedRuntimeError(@)]
                       /\ UNCHANGED <<phase, resp>>
                  [] OTHER ->
                       /\ frames' = [frames EXCEPT ![t] = <<>>]
                       /\ phase' = [phase EXCEPT ![t] = "done"]
                       /\ resp' = [resp EXCEPT ![t] = ServerError(o.exc)]
    /\ UNCHANGED <<req, src, calls, data>>
    /\ UNCHANGED <<rvars, mvars, pvars>>

\* Lines 63-65.
Check(t) ==
    /\ phase[t] = "collect"
    /\ Top(frames[t]).pc = "check"
    /\ frames' = [frames EXCEPT ![t] =
                    IF NeedsRetry(Top(@).retry, Top(@).result)
                    THEN StartRetry(@)
                    ELSE SkipRetry(@)]
    /\ UNCHANGED <<req, phase, src, calls, log, data, resp>>
    /\ UNCHANGED <<rvars, mvars, pvars>>

\* Line 66 of wrapped(False): back in the outer activation.
ReturnInner(t) ==
    /\ phase[t] = "collect"
    /\ Len(frames[t]) > 1
    /\ Top(frames[t]).pc = "ret"
    /\ frames' = [frames EXCEPT ![t] = ReturnToCaller(@)]
    /\ UNCHANGED <<req, phase, src, calls, log, data, resp>>
    /\ UNCHANGED <<rvars, mvars, pvars>>

\* Line 66 of the outer activation: get_all_data has the value of one item
\* and goes on to the next reader, or returns the dict of lines 100-104.
ReturnOuter(t) ==
    /\ phase[t] = "collect"
    /\ Len(frames[t]) = 1
    /\ Top(frames[t]).pc = "ret"
    /\ data' = [data EXCEPT ![t] = SetItem(@, Current(t), Top(frames[t]).result)]
    /\ IF src[t] < NumSources
       THEN /\ src' = [src EXCEPT ![t] = @ + 1]
            /\ frames' = [frames EXCEPT ![t] = Enter(<<>>, TRUE)]
            /\ UNCHANGED phase
       ELSE /\ frames' = [frames EXCEPT ![t] = <<>>]
            /\ phase' = [phase EXCEPT ![t] = "export"]
            /\ UNCHANGED src
    /\ UNCHANGED <<req, calls, log, resp>>
    /\ UNCHANGED <<rvars, mvars, pvars>>

\* The rest of the handler: the response is built from the dict.
Export(t) ==
    /\ phase[t] = "export"
    /\ resp' = [resp EXCEPT ![t] = Handler(req[t], data[t])]
    /\ phase' = [phase EXCEPT ![t] = "done"]
    /\ UNCHANGED <<req, src, frames, calls, log, data>>
    /\ UNCHANGED <<rvars, mvars, pvars>>

\* The response is sent; the thread goes back to the pool and the request's
\* locals are gone.
Finish(t) ==
    /\ phase[t] = "done"
    /\ req' = [req EXCEPT ![t] = "none"]
    /\ phase' = [phase EXCEPT ![t] = "idle"]
    /\ src' = [src EXCEPT ![t] = 1]
    /\ calls' = [calls EXCEPT ![t] = ZeroCounts]
    /\ log' = [log EXCEPT ![t] = <<>>]
    /\ data' = [data EXCEPT ![t] = EmptyDict]
    /\ resp' = [resp EXCEPT ![t] = NoResponse]
    /\ UNCHANGED frames
    /\ UNCHANGED <<rvars, mvars, pvars>>

Handle(t) ==
    \/ Call(t)
    \/ Outcome(t)
    \/ Check(t)
    \/ ReturnInner(t)
    \/ ReturnOuter(t)
    \/ Export(t)
    \/ Finish(t)

\* Thread t is executing the body of a reader that uses device dev.
Reading(t, dev) ==
    /\ phase[t] = "collect"
    /\ frames[t] # <<>>
    /\ Top(frames[t]).pc = "infunc"
    /\ DeviceOf(Current(t)) = dev

(***************************************************************************)
(* service_test.py: every 600 seconds the loop asks systemctl for the      *)
(* status of each service, in list order, until one is down (any() stops   *)
(* at the first true item), and sets the LED.  reports holds the exit      *)
(* codes the current cycle has seen.                                       *)
(***************************************************************************)
services == <<"autossh-tunnel", "grafana-server", "tempserver", "hue-emulator">>

ServiceSet == {services[i] : i \in 1..Len(services)}

\* The number of polling cycles the model follows.
MaxCycles == 3

\* Exit codes of systemctl status: 0 running, 3 not running, 4 no such unit.
ReturnCodes == {0, 3, 4}

MInit ==
    /\ returncode = [s \in ServiceSet |-> 0]
    /\ mpc = "check"
    /\ idx = 1
    /\ reports = <<>>
    /\ led = FALSE
    /\ prevLed = FALSE
    /\ cycles = 1

\* A service stops or comes back, at any time.
ServiceChange ==
    /\ \E s \in ServiceSet, c \in ReturnCodes :
         returncode' = [returncode EXCEPT ![s] = c]
    /\ UNCHANGED <<mpc, idx, reports, led, prevLed, cycles>>
    /\ UNCHANGED <<rvars, svars, pvars>>

\* Line 19: the exit code subprocess.run gets for systemctl status.
run(service) == returncode[service]

\* Line 20: bool(result.returncode).
is_down(result) == result # 0

\* One item of the generator of line 24.
IsDown ==
    /\ mpc = "check"
    /\ reports' = Append(reports, run(services[idx]))
    /\ IF is_down(run(services[idx])) \/ idx = Len(services)
       THEN /\ mpc' = "set"
            /\ UNCHANGED idx
       ELSE /\ idx' = idx + 1
            /\ UNCHANGED mpc
    /\ UNCHANGED <<returncode, led, prevLed, cycles>>
    /\ UNCHANGED <<rvars, svars, pvars>>

\* any(is_down(service) for ...) over the exit codes seen in this cycle.
any(seq) == \E i \in 1..Len(seq) : is_down(seq[i])

\* Fault variant: the LED is only ever turned on.
IndicatorLatched(current, seq) == current \/ any(seq)

\* Lines 24-27: red.on() when any() is true, red.off() otherwise.
IndicatorLevel(current, seq) == any(seq)

SetLed ==
    /\ mpc = "set"
    /\ led' = IndicatorLevel(led, reports)
    /\ mpc' = "sleep"
    /\ UNCHANGED <<returncode, idx, reports, prevLed, cycles>>
    /\ UNCHANGED <<rvars, svars, pvars>>

\* time.sleep(600) returns and the next cycle starts.
Wake ==
    /\ mpc = "sleep"
    /\ cycles < MaxCycles
    /\ cycles' = cycles + 1
    /\ prevLed' = led
    /\ idx' = 1
    /\ reports' = <<>>
    /\ mpc' = "check"
    /\ UNCHANGED <<returncode, led>>
    /\ UNCHANGED <<rvars, svars, pvars>>

MNext == ServiceChange \/ IsDown \/ SetLed \/ Wake

(***************************************************************************)
(* The pressure assessment of TempServ.index, for every pressure the       *)
(* barometer can report between PressureMin and PressureMax (tenths hPa).  *)
(***************************************************************************)
PressureMin == 10020

PressureMax == 10180

PIdle ==
    /\ phpa = PressureMin
    /\ pnote = "unset"

PInit ==
    /\ phpa \in PressureMin..PressureMax
    /\ pnote = "unset"

Assess ==
    /\ pnote = "unset"
    /\ pnote' = pressure_note(RoundedInHg(phpa))
    /\ UNCHANGED phpa
    /\ UNCHANGED <<rvars, svars, mvars>>

PNext == Assess

(***************************************************************************)
(* Specifications                                                          *)
(***************************************************************************)
Init == RInit /\ SInit /\ MInit /\ PIdle

\* tempserver.py with requests arriving one at a time.
Next == \E t \in Threads : AcceptAlone(t) \/ Handle(t)

Spec == Init /\ [][Next]_vars

\* tempserver.py with requests arriving at any time.
NextServer == \E t \in Threads : Accept(t) \/ Handle(t)

SpecServer == Init /\ [][NextServer]_vars

\* One logical read through retryable.
SpecRetry == Init /\ [][RNext]_vars

\* service_test.py.
SpecMonitor == Init /\ [][MNext]_vars

\* The pressure assessment.
InitPressure == RInit /\ SInit /\ MInit /\ PInit

SpecPressure == InitPressure /\ [][PNext]_vars

(***************************************************************************)
(* Properties of one logical read through retryable (SpecRetry).           *)
(***************************************************************************)
\* An attempt that fails: it raises RuntimeError or returns a falsy value.
FailedAttempt(o) ==
    \/ o.kind = "raise" /\ o.exc = "RuntimeError"
    \/ o.kind = "return" /\ o.value \in {None, Num(0), Str("")}

\* An attempt that returns a Reading.
ReadingAttempt(o) == o.kind = "return" /\ o.value \in {ReadingA, ReadingB}

\* An attempt that raises an exception other than RuntimeError.
FatalAttempt(o) == o.kind = "raise" /\ o.exc \in {"OSError", "KeyError"}

AllFailed == \A i \in 1..Len(rlog) : FailedAttempt(rlog[i])

\* C1, as stated: the operation is never invoked more than twice in a
\* logical read, and a read whose attempts all fail returns None after
\* exactly two invocations.
C1_ReturnsNone ==
    /\ rcalls <= 2
    /\ (rstatus = "returned" /\ AllFailed) =>
           (rvalue = None /\ rcalls = 2)

\* C1, amended: the operation is never invoked more than twice in a logical
\* read, and a read whose attempts all fail ends after exactly two
\* invocations with what the second attempt left: None when it raised
\* RuntimeError, the falsy value it returned otherwise.
C1_ReturnsSecondFalsy ==
    /\ rcalls <= 2
    /\ (rstatus = "returned" /\ AllFailed) =>
           /\ rcalls = 2
           /\ Len(rlog) = 2
           /\ rvalue = (IF rlog[2].kind = "return" THEN rlog[2].value ELSE None)
           /\ rvalue \in {None, Num(0), Str("")}

\* A read failed twice and its second attempt returned the falsy value 0.
C1_Witness ==
    /\ rstatus = "returned"
    /\ Len(rlog) = 2
    /\ rlog[1] = [kind |-> "raise", exc |-> "RuntimeError"]
    /\ rlog[2] = [kind |-> "return", value |-> Num(0)]
    /\ rvalue = Num(0)

\* C2: a Reading ends the read: it is the last invocation, a Reading on the
\* first attempt is returned after exactly one invocation, and a Reading on
\* the second attempt after a failed first one is returned after exactly two.
C2_FirstReadingReturned ==
    /\ \A i \in 1..Len(rlog) :
         ReadingAttempt(rlog[i]) => (i = Len(rlog) /\ rcalls = i)
    /\ (rstatus = "returned" /\ Len(rlog) >= 1 /\ ReadingAttempt(rlog[1])) =>
           (rcalls = 1 /\ rvalue = rlog[1].value)
    /\ (rstatus = "returned" /\ Len(rlog) >= 2 /\ FailedAttempt(rlog[1])
          /\ ReadingAttempt(rlog[2])) =>
           (rcalls = 2 /\ rvalue = rlog[2].value)

\* A read whose first attempt raised RuntimeError returned the Reading of
\* its second attempt.
C2_Witness ==
    /\ rstatus = "returned"
    /\ Len(rlog) = 2
    /\ rlog[1] = [kind |-> "raise", exc |-> "RuntimeError"]
    /\ rlog[2] = [kind |-> "return", value |-> ReadingB]
    /\ rvalue = ReadingB
    /\ rcalls = 2

\* C3: when the first attempt raises an exception other than RuntimeError,
\* the read ends by raising, the operation was invoked once and never again,
\* and nothing is returned.
C3_FatalPropagates ==
    (Len(rlog) >= 1 /\ FatalAttempt(rlog[1])) =>
        /\ rstatus = "raised"
        /\ rcalls = 1
        /\ Len(rlog) = 1

\* A read ended by the OSError of its first attempt.
C3_Witness ==
    /\ rstatus = "raised"
    /\ rlog = <<[kind |-> "raise", exc |-> "OSError"]>>
    /\ rcalls = 1

(***************************************************************************)
(* Properties of an aggregation pass and of the handlers (Spec), and of    *)
(* the thread pool (SpecServer).                                           *)
(***************************************************************************)
\* What happened during the invocations of the reader of s, in order.
EntriesOf(t, s) == SelectSeq(log[t], LAMBDA x : x.source = s)

\* The reader raised RuntimeError (or a subclass of it).
RecoverableFailure(x) ==
    ~x.env.ok /\ x.env.exc \in {"RuntimeError", "RecursionError"}

\* The reader raised another exception.
FatalFailure(x) == ~x.env.ok /\ x.env.exc \in {"OSError", "KeyError"}

SourceIndex(s) == CHOOSE j \in 1..NumSources : Sources[j] = s

\* get_all_data has returned its dict to the handler of thread t.
Collected(t) ==
    phase[t] \in {"export", "done"} /\ DOMAIN data[t] = SourceNames

ZeroReading ==
    [type |-> "TempResult", temp_c |-> 0, humidity |-> 0,
     co2 |-> None, pressure_hpa |-> None]

\* C4: a pass in which no reader raises anything but RuntimeError returns
\* its dict; the dict has an entry for each of the three sources; every
\* reader was invoked, at most twice; the entry of a source whose two
\* attempts both raised RuntimeError is None and every other entry is the
\* Reading its reader returned last.
C4_RecoverableFailuresIsolated ==
    \A t \in Threads :
      /\ (phase[t] = "done"
            /\ \A i \in 1..Len(log[t]) : ~FatalFailure(log[t][i])) =>
             DOMAIN data[t] = SourceNames
      /\ Collected(t) =>
           \A s \in SourceNames :
             LET es == EntriesOf(t, s)
             IN  /\ calls[t][s] \in 1..2
                 /\ calls[t][s] = Len(es)
                 /\ IF Len(es) = 2 /\ RecoverableFailure(es[1])
                                   /\ RecoverableFailure(es[2])
                    THEN data[t][s] = None
                    ELSE /\ ~RecoverableFailure(es[Len(es)])
                         /\ data[t][s].type = "TempResult"
                         /\ data[t][s] = ReaderOutcome(s, es[Len(es)].env).value

\* A pass returned a dict in which quality, failed twice, is None and the
\* other two sources have their Readings.
C4_Witness ==
    \E t \in Threads :
      /\ Collected(t)
      /\ Len(EntriesOf(t, "quality")) = 2
      /\ data[t]["quality"] = None
      /\ data[t]["bedroom"].type = "TempResult"
      /\ data[t]["barometer"].type = "TempResult"

\* C5: when a reader raises an exception other than RuntimeError, that is
\* the last thing the pass does: the exception leaves get_all_data (the
\* request ends with it), no dict is returned, and the readers of the
\* sources after the failing one are never invoked.
C5_FatalAbortsPass ==
    \A t \in Threads :
      \A i \in 1..Len(log[t]) :
        FatalFailure(log[t][i]) =>
          /\ i = Len(log[t])
          /\ phase[t] = "done"
          /\ resp[t] = [status |-> 500, error |-> log[t][i].env.exc]
          /\ ~Collected(t)
          /\ \A j \in 1..NumSources :
               j > SourceIndex(log[t][i].source) => calls[t][Sources[j]] = 0

\* quality was read, then bedroom raised KeyError: the request ended with
\* it and barometer was never read.
C5_Witness ==
    \E t \in Threads :
      /\ phase[t] = "done"
      /\ Len(log[t]) = 2
      /\ log[t][1].source = "quality" /\ log[t][1].env.ok
      /\ log[t][2].source = "bedroom" /\ FatalFailure(log[t][2])
      /\ calls[t]["barometer"] = 0
      /\ resp[t] = [status |-> 500, error |-> "KeyError"]

\* C7, as stated: no two threads are inside a reader of the same device at
\* the same time.
C7_OneReaderPerDevice ==
    \A dev \in {"quality", "barometer"} :
      \A t1 \in Threads, t2 \in Threads :
        (Reading(t1, dev) /\ Reading(t2, dev)) => t1 = t2

\* C8, as stated: when the dict has a None entry the handler still answers
\* 200; metrics has no gauge for a None source and has gauges for every
\* other source; the HTML page is rendered.
C8_AbsentSourceRendered ==
    \A t \in Threads :
      (phase[t] = "done" /\ Collected(t)
         /\ \E s \in SourceNames : data[t][s] = None) =>
        /\ resp[t].status = 200
        /\ req[t] = "metrics" =>
             \A s \in SourceNames :
               (data[t][s] = None) <=>
                 ~\E g \in resp[t].gauges : g.location = s
        /\ req[t] = "browser" => resp[t].view = "html"

\* C9: a refused connection to the bedroom sensor is the last attempt on
\* that source, the pass goes on, no ConnectionError ends the request, and
\* the dict's bedroom entry is TempResult(0, 0) with neither co2 nor
\* pressure.
C9_BedroomUnreachableIsZero ==
    \A t \in Threads :
      \A i \in 1..Len(log[t]) :
        (log[t][i].source = "bedroom" /\ ~log[t][i].env.ok
           /\ log[t][i].env.exc = "ConnectionError") =>
          /\ \A j \in 1..Len(log[t]) : j > i => log[t][j].source # "bedroom"
          /\ i = Len(log[t]) => phase[t] = "collect"
          /\ resp[t] # [status |-> 500, error |-> "ConnectionError"]
          /\ "bedroom" \in DOMAIN data[t] => data[t]["bedroom"] = ZeroReading

\* A pass returned a dict whose bedroom entry comes from a refused
\* connection.
C9_Witness ==
    \E t \in Threads :
      /\ Collected(t)
      /\ \E i \in 1..Len(log[t]) :
           /\ log[t][i].source = "bedroom"
           /\ ~log[t][i].env.ok
           /\ log[t][i].env.exc = "ConnectionError"
      /\ data[t]["bedroom"] = ZeroReading

(***************************************************************************)
(* Property of service_test.py (SpecMonitor).                              *)
(***************************************************************************)
\* C6: once a cycle has set the LED, the LED is on exactly when one of the
\* status checks of that cycle reported a service down, whatever the LED
\* was before.
C6_LedIsLevelOfCycle ==
    mpc = "sleep" => (led <=> \E i \in 1..Len(reports) : reports[i] # 0)

\* A cycle that found every service up turned off the LED that the cycle
\* before had turned on.
C6_Witness ==
    /\ mpc = "sleep"
    /\ cycles >= 2
    /\ prevLed
    /\ ~led
    /\ Len(reports) = Len(services)

(***************************************************************************)
(* Property of the pressure assessment (SpecPressure).  The pressure in    *)
(* inHg is phpa * 100000 / InHgDivisor hundredths.                         *)
(***************************************************************************)
\* C10, as stated: "high" when the pressure is above 30.2 inHg, "low" when
\* it is below 29.8 inHg, "normal" otherwise.
C10_BandsOfPressure ==
    pnote # "unset" =>
      pnote = (IF phpa * 100000 > 3020 * InHgDivisor THEN "high"
               ELSE IF phpa * 100000 < 2980 * InHgDivisor THEN "low"
               ELSE "normal")

\* C10, amended: the bands apply to the pressure rounded to two decimals:
\* "high" from 30.205 inHg up, "low" below 29.795 inHg, "normal" between.
C10_BandsOfRoundedPressure ==
    pnote # "unset" =>
      pnote = (IF 2 * phpa * 100000 >= 6041 * InHgDivisor THEN "high"
               ELSE IF 2 * phpa * 100000 < 5959 * InHgDivisor THEN "low"
               ELSE "normal")

\* A pressure above 30.2 inHg that rounds to 30.20 was assessed "normal".
C10_Witness ==
    /\ pnote = "normal"
    /\ phpa * 100000 > 3020 * InHgDivisor
    /\ RoundedInHg(phpa) = 3020

====
